---- MODULE Spec2Model ----
(***************************************************************************)
(* Model of ecef_to_sez.py: the command-line script, ecef_to_sez and       *)
(* ecef_to_llh, with the latitude loop unrolled one iteration per step.     *)
(*                                                                         *)
(* Python floats are modelled as records [k, v]:                           *)
(*   k = "fin"  a finite number, v its fixed-point value;                  *)
(*   k = "nan"  not-a-number;  k = "inf"  an infinity of sign v;           *)
(*   k = "ZeroDivisionError" / "ValueError"  the exception an expression   *)
(*              raised, which every later operation passes on.             *)
(* Lengths are held in units of 1/LEN km, angles and other dimensionless   *)
(* numbers in units of 1/A.  Integers stay below 2^31.                     *)
(***************************************************************************)
EXTENDS Integers, Naturals, Sequences, FiniteSets, TLC

A == 10^8                   \* units per 1.0 (radians, sines, ratios)
LEN == 10^4                 \* units per km
H == 10^4                   \* half-word used to split a product

R_E_KM_0 == 63781370        \* 6378.137 km in units of 1/LEN km
E_E_0 == 8181922            \* 0.081819221456 in units of 1/A
PI == 314159265             \* math.pi in units of 1/A
HALF_PI == PI \div 2

----------------------------------------------------------------------------
(* Integer helpers.  Python evaluates the arguments of a call once, before  *)
(* the call; an operator does the same by binding each argument to its      *)
(* value (x \in {a}) before using it.                                       *)

\* the element of a one-element set
Only(S) == CHOOSE r \in S : TRUE

Abs(n) == IF n < 0 THEN -n ELSE n
Sgn(n) == IF n < 0 THEN -1 ELSE IF n > 0 THEN 1 ELSE 0
Max(a, b) == IF a >= b THEN a ELSE b

\* a*b/A rounded to nearest, for |a| < 2^31 and |b| <= 2*A
Mul(a, b) ==
    Only({ LET x1 == x \div H
               x0 == x % H
               y1 == y \div H
               y0 == y % H
           IN  s * (x1 * y1 + (x1 * y0 + x0 * y1 + (x0 * y0 + A \div 2) \div H) \div H) :
           x \in {Abs(a)}, y \in {Abs(b)}, s \in {Sgn(a) * Sgn(b)} })

\* one decimal digit of a long division by d: s = <<quotient, remainder>>
DivStep(s, d) ==
    Only({ <<q * 10 + (r * 10) \div d, (r * 10) % d>> : q \in {s[1]}, r \in {s[2]} })

\* floor(n*A/d) for n >= 0 and 0 < d < 2^31/10
DivPos(n, d) ==
    Only({ LET s0 == <<m \div e, m % e>>
               s2 == DivStep(DivStep(s0, e), e)
               s4 == DivStep(DivStep(s2, e), e)
               s6 == DivStep(DivStep(s4, e), e)
               s8 == DivStep(DivStep(s6, e), e)
           IN  s8[1] : m \in {n}, e \in {d} })

\* n*A/d rounded toward zero, d # 0
Div(n, d) == Only({ Sgn(m) * Sgn(e) * DivPos(Abs(m), Abs(e)) : m \in {n}, e \in {d} })

\* floor(sqrt(v/A) * A) for A/100 <= v <= 3*A  (Newton from above)
RECURSIVE SqrtFrom(_, _)
SqrtFrom(v, d) ==
    Only({ IF n >= d THEN d ELSE SqrtFrom(v, n) : n \in {(d + DivPos(v, d)) \div 2} })

\* sqrt(v/A) * A for 0 <= v <= 3*A
RECURSIVE SqrtA(_)
SqrtA(v) ==
    Only({ IF w <= 0 THEN 0
           ELSE IF w < A \div 100 THEN SqrtA(w * 100) \div 10
           ELSE SqrtFrom(w, (w + A) \div 2) : w \in {v} })

\* sqrt(a^2 + b^2 + c^2) for lengths, as m * sqrt((a/m)^2 + (b/m)^2 + (c/m)^2)
Hypot(a, b, c) ==
    Only({ IF m = 0 THEN 0
           ELSE Only({ Mul(m, SqrtA(Mul(ta, ta) + Mul(tb, tb) + Mul(tc, tc))) :
                       ta \in {DivPos(Abs(a), m)}, tb \in {DivPos(Abs(b), m)},
                       tc \in {DivPos(Abs(c), m)} }) :
           m \in {Max(Abs(a), Max(Abs(b), Abs(c)))} })

\* sine and cosine series on [0, pi/4]
SinSeries(x) ==
    Only({ LET t5 == A - x2 \div 110
               t4 == A - Mul(x2, t5) \div 72
               t3 == A - Mul(x2, t4) \div 42
               t2 == A - Mul(x2, t3) \div 20
               t1 == A - Mul(x2, t2) \div 6
           IN  Mul(x, t1) : x2 \in {Mul(x, x)} })

CosSeries(x) ==
    Only({ LET t6 == A - x2 \div 132
               t5 == A - Mul(x2, t6) \div 90
               t4 == A - Mul(x2, t5) \div 56
               t3 == A - Mul(x2, t4) \div 30
               t2 == A - Mul(x2, t3) \div 12
           IN  A - Mul(x2, t2) \div 2 : x2 \in {Mul(x, x)} })

\* sine and cosine of an angle in [0, pi/2].  HALF_PI and PI lie just below
\* pi/2 and pi, as the floats math.pi/2 and math.pi do, so the cosine of
\* HALF_PI and the sine of PI are the smallest positive number, not 0.
SinQ1(x) == IF x > HALF_PI \div 2 THEN CosSeries(HALF_PI - x) ELSE SinSeries(x)
CosQ1(x) ==
    IF x = HALF_PI THEN 1
    ELSE IF x > HALF_PI \div 2 THEN SinSeries(HALF_PI - x) ELSE CosSeries(x)

\* sine and cosine of an angle in [-pi, pi]
Sin(x) ==
    Only({ s * (IF y = PI THEN 1
                ELSE IF y > HALF_PI THEN SinQ1(PI - y) ELSE SinQ1(y)) :
           y \in {Abs(x)}, s \in {Sgn(x)} })
Cos(x) ==
    Only({ IF y > HALF_PI THEN -CosQ1(PI - y) ELSE CosQ1(y) : y \in {Abs(x)} })

\* arctangent series on [0, tan(pi/8)]
AtanSeries(t) ==
    Only({ LET c11 == A \div 23
               c10 == A \div 21 - Mul(t2, c11)
               c9  == A \div 19 - Mul(t2, c10)
               c8  == A \div 17 - Mul(t2, c9)
               c7  == A \div 15 - Mul(t2, c8)
               c6  == A \div 13 - Mul(t2, c7)
               c5  == A \div 11 - Mul(t2, c6)
               c4  == A \div 9 - Mul(t2, c5)
               c3  == A \div 7 - Mul(t2, c4)
               c2  == A \div 5 - Mul(t2, c3)
               c1  == A \div 3 - Mul(t2, c2)
           IN  t - Mul(t, Mul(t2, c1)) : t2 \in {Mul(t, t)} })

\* arctangent of t in [0, 1]; 0.41421356 is tan(pi/8)
AtanUnit(t) ==
    Only({ IF u > 41421356 THEN HALF_PI \div 2 - Only({ AtanSeries(w) : w \in {DivPos(A - u, A + u)} })
           ELSE AtanSeries(u) : u \in {t} })

\* arctangent of n/d for n >= 0, d >= 0, not both 0
AtanQ1(n, d) ==
    IF n <= d THEN AtanUnit(DivPos(n, d))
    ELSE HALF_PI - AtanUnit(DivPos(d, n))

----------------------------------------------------------------------------
(* Python float values and the operations the program applies to them *)

F(n) == [k |-> "fin", v |-> n]
NaN == [k |-> "nan", v |-> 0]
Inf(s) == [k |-> "inf", v |-> s]
Raised(e) == [k |-> e, v |-> 0]

IsExc(a) == a.k \in {"ZeroDivisionError", "ValueError"}
IsFin(a) == a.k = "fin"
\* the sign of a float that is not NaN
Sign(a) == Sgn(a.v)

\* math.isnan(a)
isnan(a) == a.k = "nan"

\* -a
fneg(a) ==
    Only({ IF IsExc(x) \/ isnan(x) THEN x
           ELSE IF IsFin(x) THEN F(-x.v) ELSE Inf(-x.v) : x \in {a} })

\* a + b
fadd(a, b) ==
    Only({ IF IsExc(x) THEN x
           ELSE IF IsExc(y) THEN y
           ELSE IF isnan(x) \/ isnan(y) THEN NaN
           ELSE IF IsFin(x) /\ IsFin(y) THEN F(x.v + y.v)
           ELSE IF IsFin(x) THEN y
           ELSE IF IsFin(y) THEN x
           ELSE IF x.v = y.v THEN x ELSE NaN : x \in {a}, y \in {b} })

\* a - b
fsub(a, b) == fadd(a, fneg(b))

\* a * b, b dimensionless
fmul(a, b) ==
    Only({ IF IsExc(x) THEN x
           ELSE IF IsExc(y) THEN y
           ELSE IF isnan(x) \/ isnan(y) THEN NaN
           ELSE IF IsFin(x) /\ IsFin(y) THEN F(Mul(x.v, y.v))
           ELSE IF Sign(x) * Sign(y) = 0 THEN NaN
           ELSE Inf(Sign(x) * Sign(y)) : x \in {a}, y \in {b} })

\* a / b, b dimensionless or a and b both lengths with |a| <= 21 |b|
fdiv(a, b) ==
    Only({ IF IsExc(x) THEN x
           ELSE IF IsExc(y) THEN y
           ELSE IF IsFin(y) /\ y.v = 0 THEN Raised("ZeroDivisionError")
           ELSE IF isnan(x) \/ isnan(y) THEN NaN
           ELSE IF IsFin(x) /\ IsFin(y) THEN F(Div(x.v, y.v))
           ELSE IF IsFin(x) THEN F(0)
           ELSE IF IsFin(y) THEN Inf(Sign(x) * Sign(y))
           ELSE NaN : x \in {a}, y \in {b} })

\* math.sqrt(a), a dimensionless
math_sqrt(a) ==
    Only({ IF IsExc(x) \/ isnan(x) THEN x
           ELSE IF x.v < 0 THEN Raised("ValueError")
           ELSE IF IsFin(x) THEN F(SqrtA(x.v)) ELSE x : x \in {a} })

\* math.sqrt(a**2 + b**2 + c**2), a, b, c lengths
sqrt_sumsq(a, b, c) ==
    Only({ IF IsExc(x) THEN x
           ELSE IF IsExc(y) THEN y
           ELSE IF IsExc(z) THEN z
           ELSE IF isnan(x) \/ isnan(y) \/ isnan(z) THEN NaN
           ELSE IF IsFin(x) /\ IsFin(y) /\ IsFin(z) THEN F(Hypot(x.v, y.v, z.v))
           ELSE Inf(1) : x \in {a}, y \in {b}, z \in {c} })

\* math.sin(a), math.cos(a)
math_sin(a) ==
    Only({ IF IsExc(x) \/ isnan(x) THEN x
           ELSE IF IsFin(x) THEN F(Sin(x.v)) ELSE Raised("ValueError") : x \in {a} })

math_cos(a) ==
    Only({ IF IsExc(x) \/ isnan(x) THEN x
           ELSE IF IsFin(x) THEN F(Cos(x.v)) ELSE Raised("ValueError") : x \in {a} })

\* math.asin(a)
math_asin(a) ==
    Only({ IF IsExc(x) \/ isnan(x) THEN x
           ELSE IF ~IsFin(x) \/ Abs(x.v) > A THEN Raised("ValueError")
           ELSE F(Sgn(x.v) * AtanQ1(Abs(x.v), SqrtA(A - Mul(x.v, x.v)))) : x \in {a} })

\* math.atan(n / d), n and d lengths
atan_div(n, d) ==
    Only({ IF IsExc(x) THEN x
           ELSE IF IsExc(y) THEN y
           ELSE IF IsFin(y) /\ y.v = 0 THEN Raised("ZeroDivisionError")
           ELSE IF isnan(x) \/ isnan(y) THEN NaN
           ELSE IF IsFin(x) /\ IsFin(y)
                THEN F(Sgn(x.v) * Sgn(y.v) * AtanQ1(Abs(x.v), Abs(y.v)))
           ELSE IF IsFin(x) THEN F(0)
           ELSE IF IsFin(y) THEN F(Sign(x) * Sign(y) * HALF_PI)
           ELSE NaN : x \in {n}, y \in {d} })

\* math.atan2(y, x)
math_atan2(y, x) ==
    Only({ IF IsExc(b) THEN b
           ELSE IF IsExc(a) THEN a
           ELSE IF isnan(b) \/ isnan(a) THEN NaN
           ELSE IF IsFin(b) /\ IsFin(a) THEN
               (IF a.v = 0 /\ b.v = 0 THEN F(0)
                ELSE IF a.v >= 0 THEN F(Sgn(b.v) * AtanQ1(Abs(b.v), a.v))
                ELSE IF b.v = 0 THEN F(PI)
                ELSE F(Sgn(b.v) * (PI - AtanQ1(Abs(b.v), -a.v))))
           ELSE IF IsFin(b) THEN
               (IF a.v > 0 THEN F(0) ELSE IF b.v < 0 THEN F(-PI) ELSE F(PI))
           ELSE IF IsFin(a) THEN F(b.v * HALF_PI)
           ELSE IF a.v > 0 THEN F(b.v * (HALF_PI \div 2))
           ELSE F(b.v * (PI - HALF_PI \div 2)) : b \in {y}, a \in {x} })

\* (variants of the comparison: a tolerance of 1e-3, and a difference that
\* never counts as settled)
abs_gt_1e3(a) ==
    \E x \in {a} : IF isnan(x) THEN FALSE
                   ELSE IF IsFin(x) THEN Abs(x.v) > A \div 10^3 ELSE TRUE

abs_ge_0(a) == ~isnan(a)

\* abs(a) > 1e-7, a an angle
abs_gt_1e7(a) ==
    \E x \in {a} : IF isnan(x) THEN FALSE
                   ELSE IF IsFin(x) THEN Abs(x.v) > A \div 10^7 ELSE TRUE

\* str(a): the repr of a float names the float
str(a) == [repr |-> a]

\* float(tok) for a command-line token
float(tok) ==
    CASE tok.txt = "num" -> F(tok.km * LEN)
      [] tok.txt = "nan" -> NaN
      [] tok.txt = "inf" -> Inf(1)
      [] tok.txt = "-inf" -> Inf(-1)
      [] OTHER -> Raised("ValueError")

----------------------------------------------------------------------------
(* Bounds and inputs *)

MaxCount == 12              \* iterations of the latitude loop that are followed
MaxArgc == 8                \* longest command line tried
MaxCalls == 2               \* calls each library thread makes

Threads == {"main", "t1", "t2"}
Workers == {"t1", "t2"}

Num(n) == [txt |-> "num", km |-> n]
Word(w) == [txt |-> w, km |-> 0]

\* observer positions, km
ObsKm == {<<x, y, z>> : x \in {0, 1, 40, 6378}, y \in {0, 1000, -6378},
                        z \in {-12000, 0, 1, 6378}}
\* target minus observer, km
OffsetKm == {<<0, 0, 0>>, <<0, 0, 1>>, <<3, -4, 5>>}

\* an observer at which the last two latitude iterates give different c_E
ObsMidLat == <<6378, 0, 794>>

NumArgs == {<<Num(o[1]), Num(o[2]), Num(o[3]),
              Num(o[1] + d[1]), Num(o[2] + d[2]), Num(o[3] + d[3])>> :
            o \in ObsKm \cup {ObsMidLat}, d \in OffsetKm}

\* positions with a coordinate that is not a finite number
OddPos == {<<Word("nan"), Num(0), Num(0)>>, <<Num(6378), Word("nan"), Num(1)>>,
           <<Num(6378), Num(0), Word("inf")>>, <<Num(0), Num(0), Word("-inf")>>,
           <<Word("inf"), Num(0), Num(1)>>, <<Num(1), Word("-inf"), Num(0)>>,
           <<Word("inf"), Num(0), Word("inf")>>, <<Word("-inf"), Num(0), Num(1)>>,
           <<Word("-inf"), Num(-1), Num(0)>>, <<Word("inf"), Word("-inf"), Num(0)>>}
OddArgs == {p \o p : p \in OddPos}
             \cup {p \o <<Num(1), Num(2), Num(3)>> : p \in OddPos}
             \cup {<<Num(6378), Num(0), Num(0)>> \o p : p \in OddPos}
             \cup {<<Num(6378), Num(0), Num(0), Num(6378), Word("abc"), Num(1)>>,
                   <<Word("abc"), Num(0), Num(0), Num(1), Num(2), Num(3)>>}

\* command lines with the wrong number of arguments
WrongCount == {[i \in 1..n |-> w] : n \in (0..MaxArgc) \ {6},
                                     w \in {Num(6378), Num(0), Word("nan"), Word("abc")}}

ArgvSet == {<<Word("ecef_to_sez.py")>> \o a : a \in NumArgs \cup OddArgs \cup WrongCount}

\* arguments the library threads pass: <<function, positions in km>>
CallSet == {<<"ecef_to_sez", <<6378, 0, 0, 6378, 0, 1>>>>,
            <<"ecef_to_sez", <<1000, 1000, 6378, 1003, 996, 6383>>>>,
            <<"ecef_to_llh", <<6378, 0, 0>>>>,
            <<"ecef_to_llh", <<0, 0, 6378>>>>}

\* the command line whose run the library threads follow
Argv0 == <<Word("ecef_to_sez.py"), Num(6378), Num(0), Num(0), Num(6378), Num(0), Num(1)>>

----------------------------------------------------------------------------
(* State *)

VARIABLES
    sys_argv,       \* sys.argv, a sequence of tokens
    spc,            \* where the module-level script is
    stdout,         \* lines printed so far
    parsed,         \* o_x_km, o_y_km, o_z_km, x_km, y_km, z_km of lines 83-88
    R_E_KM, E_E,    \* the module constants
    pc,             \* per thread: where its call is
    fn,             \* per thread: the function called
    args,           \* per thread: the arguments of the call
    lon_rad, lat_rad, r_lon_km, prev_lat_rad, count, c_E, hae_km,
                    \* per thread: the locals of ecef_to_llh
    ret,            \* per thread: what the call returned or raised
    hist,           \* completed library calls
    calls           \* per thread: library calls started

scriptVars == <<sys_argv, spc, stdout, parsed>>
globals == <<R_E_KM, E_E>>
frameVars == <<pc, fn, args, ret>>
llhVars == <<lon_rad, lat_rad, r_lon_km, prev_lat_rad, count, c_E, hae_km>>
clientVars == <<hist, calls>>
vars == <<scriptVars, globals, frameVars, llhVars, clientVars>>

Unbound == [k |-> "unbound", v |-> 0]
NoRet == [exc |-> "pending", val |-> <<>>]
Returned(v) == [exc |-> "none", val |-> v]
Threw(e) == [exc |-> e.k, val |-> <<>>]

UsageLine == <<"Usage: python3 ecef_to_sez.py o_x_km o_y_km o_z_km x_km y_km z_km">>

\* the position ecef_to_llh was given (ecef_to_sez passes its observer)
r_x_km(t) == args[t][1]
r_y_km(t) == args[t][2]
r_z_km(t) == args[t][3]

Init ==
    /\ sys_argv \in ArgvSet
    /\ spc = "start"
    /\ stdout = <<>>
    /\ parsed = <<>>
    /\ R_E_KM = F(R_E_KM_0)
    /\ E_E = F(E_E_0)
    /\ pc = [t \in Threads |-> "idle"]
    /\ fn = [t \in Threads |-> "none"]
    /\ args = [t \in Threads |-> <<>>]
    /\ lon_rad = [t \in Threads |-> Unbound]
    /\ lat_rad = [t \in Threads |-> Unbound]
    /\ r_lon_km = [t \in Threads |-> Unbound]
    /\ prev_lat_rad = [t \in Threads |-> Unbound]
    /\ count = [t \in Threads |-> 0]
    /\ c_E = [t \in Threads |-> Unbound]
    /\ hae_km = [t \in Threads |-> Unbound]
    /\ ret = [t \in Threads |-> NoRet]
    /\ hist = {}
    /\ calls = [t \in Threads |-> 0]

----------------------------------------------------------------------------
(* ecef_to_llh and ecef_to_sez, one thread's call at a time *)

\* (variant: the name is a module global, one value for every thread)
SetShared(var, t, val) == [u \in DOMAIN var |-> val]

\* assignment to a local variable: only the frame of the running call changes
SetLocal(var, t, val) == [var EXCEPT ![t] = val]

\* a call of f(a): a new frame
Call(t, f, a) ==
    /\ pc' = [pc EXCEPT ![t] = "llh_start"]
    /\ fn' = [fn EXCEPT ![t] = f]
    /\ args' = [args EXCEPT ![t] = a]
    /\ ret' = [ret EXCEPT ![t] = NoRet]
    /\ lon_rad' = SetLocal(lon_rad, t, Unbound)
    /\ lat_rad' = SetLocal(lat_rad, t, Unbound)
    /\ r_lon_km' = SetLocal(r_lon_km, t, Unbound)
    /\ prev_lat_rad' = SetLocal(prev_lat_rad, t, Unbound)
    /\ count' = SetLocal(count, t, 0)
    /\ c_E' = SetLocal(c_E, t, Unbound)
    /\ hae_km' = SetLocal(hae_km, t, Unbound)

\* an exception leaves the function
Raise(t, e) ==
    /\ pc' = [pc EXCEPT ![t] = "raised"]
    /\ ret' = [ret EXCEPT ![t] = Threw(e)]
    /\ UNCHANGED <<fn, args>>

\* calc_denom(ecc, lat_rad)
calc_denom(ecc, lat) ==
    math_sqrt(fsub(F(A), fmul(fmul(ecc, ecc), fmul(math_sin(lat), math_sin(lat)))))

\* lines 34-44: longitude, first latitude, r_lon_km, the loop's initial values
ecef_to_llh_init(t) ==
    /\ pc[t] = "llh_start"
    /\ LET lon == math_atan2(r_y_km(t), r_x_km(t))
           lat == math_asin(fdiv(r_z_km(t), sqrt_sumsq(r_x_km(t), r_y_km(t), r_z_km(t))))
           r_lon == sqrt_sumsq(r_x_km(t), r_y_km(t), F(0))
       IN  IF IsExc(lon) \/ IsExc(lat) \/ IsExc(r_lon)
           THEN /\ lon_rad' = SetLocal(lon_rad, t, IF IsExc(lon) THEN lon_rad[t] ELSE lon)
                /\ Raise(t, IF IsExc(lon) THEN lon ELSE IF IsExc(lat) THEN lat ELSE r_lon)
                /\ UNCHANGED <<lat_rad, r_lon_km, prev_lat_rad, count, c_E>>
           ELSE /\ lon_rad' = SetLocal(lon_rad, t, lon)
                /\ lat_rad' = SetLocal(lat_rad, t, lat)
                /\ r_lon_km' = SetLocal(r_lon_km, t, r_lon)
                /\ prev_lat_rad' = SetLocal(prev_lat_rad, t, NaN)
                /\ count' = SetLocal(count, t, 0)
                /\ c_E' = SetLocal(c_E, t, NaN)
                /\ pc' = [pc EXCEPT ![t] = "loop"]
                /\ UNCHANGED <<fn, args, ret>>
    /\ UNCHANGED <<scriptVars, globals, hae_km, clientVars>>

\* line 45: the loop condition
loop_cond(t) ==
    isnan(prev_lat_rad[t]) \/ abs_gt_1e7(fsub(lat_rad[t], prev_lat_rad[t]))

\* lines 46-50: one execution of the loop body
loop_body(t) ==
    /\ pc[t] = "loop"
    /\ loop_cond(t)
    /\ count[t] < MaxCount
    /\ LET denom == calc_denom(E_E, lat_rad[t])
           c     == fdiv(R_E_KM, denom)
       IN  IF IsExc(c)
           THEN /\ Raise(t, c)
                /\ UNCHANGED <<c_E, prev_lat_rad, lat_rad, count>>
           ELSE /\ c_E' = SetLocal(c_E, t, c)
                /\ prev_lat_rad' = SetLocal(prev_lat_rad, t, lat_rad[t])
                /\ LET lat == atan_div(fadd(r_z_km(t),
                                            fmul(fmul(c_E'[t], fmul(E_E, E_E)),
                                                 math_sin(lat_rad[t]))),
                                       r_lon_km[t])
                   IN  IF IsExc(lat)
                       THEN /\ Raise(t, lat)
                            /\ UNCHANGED <<lat_rad, count>>
                       ELSE /\ lat_rad' = SetLocal(lat_rad, t, lat)
                            /\ count' = SetLocal(count, t, count[t] + 1)
                            /\ UNCHANGED frameVars
    /\ UNCHANGED <<scriptVars, globals, lon_rad, r_lon_km, hae_km, clientVars>>

\* (variant: c_E computed again from the final latitude)
hae_recomputed(t) ==
    fsub(fdiv(r_lon_km[t], math_cos(lat_rad[t])),
         fdiv(R_E_KM, calc_denom(E_E, lat_rad[t])))

\* line 53: the height, from the c_E the loop left behind
hae_of(t) == fsub(fdiv(r_lon_km[t], math_cos(lat_rad[t])), c_E[t])

\* lines 53-56: the loop is left, the height is computed, ecef_to_llh returns
loop_exit(t) ==
    /\ pc[t] = "loop"
    /\ ~loop_cond(t)
    /\ LET hae == hae_of(t)
       IN  IF IsExc(hae)
           THEN /\ Raise(t, hae)
                /\ UNCHANGED hae_km
           ELSE /\ hae_km' = SetLocal(hae_km, t, hae)
                /\ IF fn[t] = "ecef_to_llh"
                   THEN /\ pc' = [pc EXCEPT ![t] = "returned"]
                        /\ ret' = [ret EXCEPT ![t] =
                                     Returned(<<lat_rad[t], lon_rad[t], hae>>)]
                   ELSE /\ pc' = [pc EXCEPT ![t] = "llh_done"]
                        /\ ret' = ret
                /\ UNCHANGED <<fn, args>>
    /\ UNCHANGED <<scriptVars, globals, lon_rad, lat_rad, r_lon_km, prev_lat_rad,
                   count, c_E, clientVars>>

\* (variant: the south component with the sign of dz dropped)
rotate_unsigned(lat_o_rad, lon_o_rad, dx, dy, dz) ==
    LET sin_lat_o == math_sin(lat_o_rad)
        cos_lat_o == math_cos(lat_o_rad)
        sin_lon_o == math_sin(lon_o_rad)
        cos_lon_o == math_cos(lon_o_rad)
        s_km == fadd(fadd(fmul(dz, cos_lat_o),
                          fmul(fmul(dx, cos_lon_o), sin_lat_o)),
                     fmul(fmul(dy, sin_lat_o), sin_lon_o))
        e_km == fsub(fmul(dy, cos_lon_o), fmul(dx, sin_lon_o))
        z_km == fadd(fadd(fmul(fmul(dx, cos_lat_o), cos_lon_o),
                          fmul(dz, sin_lat_o)),
                     fmul(fmul(dy, cos_lat_o), sin_lon_o))
    IN  <<s_km, e_km, z_km>>

\* lines 69-77: the rotation of the delta into south, east, zenith
rotate(lat_o_rad, lon_o_rad, dx, dy, dz) ==
    LET sin_lat_o == math_sin(lat_o_rad)
        cos_lat_o == math_cos(lat_o_rad)
        sin_lon_o == math_sin(lon_o_rad)
        cos_lon_o == math_cos(lon_o_rad)
        s_km == fadd(fadd(fmul(fneg(dz), cos_lat_o),
                          fmul(fmul(dx, cos_lon_o), sin_lat_o)),
                     fmul(fmul(dy, sin_lat_o), sin_lon_o))
        e_km == fsub(fmul(dy, cos_lon_o), fmul(dx, sin_lon_o))
        z_km == fadd(fadd(fmul(fmul(dx, cos_lat_o), cos_lon_o),
                          fmul(dz, sin_lat_o)),
                     fmul(fmul(dy, cos_lat_o), sin_lon_o))
    IN  <<s_km, e_km, z_km>>

\* lines 61-79 after ecef_to_llh returned: the delta, its rotation, the return
sez_rotate(t) ==
    /\ pc[t] = "llh_done"
    /\ LET dx == fsub(args[t][4], args[t][1])
           dy == fsub(args[t][5], args[t][2])
           dz == fsub(args[t][6], args[t][3])
           sez == rotate(lat_rad[t], lon_rad[t], dx, dy, dz)
       IN  IF \E i \in 1..3 : IsExc(sez[i])
           THEN Raise(t, sez[CHOOSE i \in 1..3 : IsExc(sez[i])])
           ELSE /\ pc' = [pc EXCEPT ![t] = "returned"]
                /\ ret' = [ret EXCEPT ![t] = Returned(sez)]
                /\ UNCHANGED <<fn, args>>
    /\ UNCHANGED <<scriptVars, globals, llhVars, clientVars>>

----------------------------------------------------------------------------
(* The module-level script *)

\* (variant: six or more arguments accepted)
argc_atleast == Len(sys_argv) >= 7

\* line 82: the script name and six arguments
argc_ok == Len(sys_argv) = 7

\* lines 82-91: six arguments are parsed, any other count prints the usage and exits
script_args ==
    /\ spc = "start"
    /\ IF argc_ok
       THEN LET vals == [i \in 1..6 |-> float(sys_argv[i + 1])]
            IN  IF \E i \in 1..6 : IsExc(vals[i])
                THEN /\ spc' = "crashed"
                     /\ UNCHANGED <<parsed, stdout>>
                ELSE /\ spc' = "parsed"
                     /\ parsed' = vals
                     /\ stdout' = stdout
       ELSE /\ stdout' = Append(stdout, UsageLine)
            /\ spc' = "exited"
            /\ parsed' = parsed
    /\ UNCHANGED <<sys_argv, globals, frameVars, llhVars, clientVars>>

\* line 94: ecef_to_sez is called with the parsed values
script_call ==
    /\ spc = "parsed"
    /\ spc' = "calling"
    /\ Call("main", "ecef_to_sez", parsed)
    /\ UNCHANGED <<sys_argv, stdout, parsed, globals, clientVars>>

\* lines 94-99: the result is unpacked and printed
script_print ==
    /\ spc = "calling"
    /\ pc["main"] = "returned"
    /\ LET s_km == ret["main"].val[1]
           e_km == ret["main"].val[2]
           z_km == ret["main"].val[3]
       IN  stdout' = stdout \o << <<"s: ", str(s_km), " km">>,
                                  <<"s: ", str(e_km), " km">>,
                                  <<"s: ", str(z_km), " km">> >>
    /\ spc' = "done"
    /\ UNCHANGED <<sys_argv, parsed, globals, frameVars, llhVars, clientVars>>

\* an exception raised under line 94 is not caught: traceback, no output
script_unhandled ==
    /\ spc = "calling"
    /\ pc["main"] = "raised"
    /\ spc' = "crashed"
    /\ UNCHANGED <<sys_argv, stdout, parsed, globals, frameVars, llhVars, clientVars>>

Next ==
    \/ script_args
    \/ script_call
    \/ script_print
    \/ script_unhandled
    \/ \E t \in Threads : ecef_to_llh_init(t)
    \/ \E t \in Threads : loop_body(t)
    \/ \E t \in Threads : loop_exit(t)
    \/ \E t \in Threads : sez_rotate(t)

Spec == Init /\ [][Next]_vars

----------------------------------------------------------------------------
(* Library use: threads of the same process calling the two functions after *)
(* the script has run with Argv0                                            *)

\* the state in which the run of Argv0 ends
InitCalls ==
    /\ sys_argv = Argv0
    /\ spc = "done"
    /\ stdout = << <<"s: ", str(F(-LEN)), " km">>,
                   <<"s: ", str(F(0)), " km">>,
                   <<"s: ", str(F(0)), " km">> >>
    /\ parsed = [i \in 1..6 |-> float(Argv0[i + 1])]
    /\ R_E_KM = F(R_E_KM_0)
    /\ E_E = F(E_E_0)
    /\ pc = [t \in Threads |-> IF t = "main" THEN "returned" ELSE "idle"]
    /\ fn = [t \in Threads |-> IF t = "main" THEN "ecef_to_sez" ELSE "none"]
    /\ args = [t \in Threads |-> IF t = "main" THEN [i \in 1..6 |-> float(Argv0[i + 1])]
                                                ELSE <<>>]
    /\ lon_rad = [t \in Threads |-> IF t = "main" THEN F(0) ELSE Unbound]
    /\ lat_rad = [t \in Threads |-> IF t = "main" THEN F(0) ELSE Unbound]
    /\ r_lon_km = [t \in Threads |-> IF t = "main" THEN F(6378 * LEN) ELSE Unbound]
    /\ prev_lat_rad = [t \in Threads |-> IF t = "main" THEN F(0) ELSE Unbound]
    /\ count = [t \in Threads |-> IF t = "main" THEN 1 ELSE 0]
    /\ c_E = [t \in Threads |-> IF t = "main" THEN F(R_E_KM_0) ELSE Unbound]
    /\ hae_km = [t \in Threads |-> IF t = "main" THEN F(6378 * LEN - R_E_KM_0) ELSE Unbound]
    /\ ret = [t \in Threads |-> IF t = "main" THEN Returned(<<F(-LEN), F(0), F(0)>>)
                                               ELSE NoRet]
    /\ hist = {}
    /\ calls = [t \in Threads |-> 0]

\* a thread calls ecef_to_sez or ecef_to_llh
client_call(t) ==
    /\ t \in Workers
    /\ pc[t] = "idle"
    /\ calls[t] < MaxCalls
    /\ \E c \in CallSet : Call(t, c[1], [i \in 1..Len(c[2]) |-> F(c[2][i] * LEN)])
    /\ calls' = [calls EXCEPT ![t] = @ + 1]
    /\ UNCHANGED <<scriptVars, globals, hist>>

\* the thread's call has returned or raised: the caller has its outcome
client_return(t) ==
    /\ t \in Workers
    /\ pc[t] \in {"returned", "raised"}
    /\ hist' = hist \cup {[by |-> t, nr |-> calls[t], fn |-> fn[t], args |-> args[t],
                           ret |-> ret[t]]}
    /\ pc' = [pc EXCEPT ![t] = "idle"]
    /\ UNCHANGED <<scriptVars, globals, fn, args, ret, llhVars, calls>>

NextCalls ==
    \/ \E t \in Threads : client_call(t)
    \/ \E t \in Threads : client_return(t)
    \/ \E t \in Threads : ecef_to_llh_init(t)
    \/ \E t \in Threads : loop_body(t)
    \/ \E t \in Threads : loop_exit(t)
    \/ \E t \in Threads : sez_rotate(t)

SpecCalls == InitCalls /\ [][NextCalls]_vars

----------------------------------------------------------------------------
(* Properties *)

\* the call of thread t has left the latitude loop by its condition
LoopLeft(t) == pc[t] \in {"llh_done", "returned"}

\* the position given to ecef_to_llh has r_lon_km > 0 and |z_km| < 10 R_E_KM
InDomain(t) ==
    /\ IsFin(r_lon_km[t])
    /\ r_lon_km[t].v > 0
    /\ IsFin(r_z_km(t))
    /\ Abs(r_z_km(t).v) < 10 * R_E_KM_0

\* ... and lies at least 1000 km from the Earth's centre
From1000km(t) ==
    InDomain(t) /\ Hypot(r_x_km(t).v, r_y_km(t).v, r_z_km(t).v) >= 1000 * LEN

\* ecef_to_sez was called with a finite observer and the target equal to it
SamePosition(t) ==
    /\ fn[t] = "ecef_to_sez"
    /\ \A i \in 1..3 : IsFin(args[t][i]) /\ args[t][i + 3] = args[t][i]

\* the call was given a position on the Z axis
OnZAxis(t) ==
    /\ fn[t] # "none"
    /\ args[t][1] = F(0)
    /\ args[t][2] = F(0)

\* ecef_to_sez was called with the observer at (x, 0, 0), x > 0, and a finite target
OnEquatorMeridian(t) ==
    /\ fn[t] = "ecef_to_sez"
    /\ IsFin(args[t][1])
    /\ args[t][1].v > 0
    /\ args[t][2] = F(0)
    /\ args[t][3] = F(0)
    /\ \A i \in 4..6 : IsFin(args[t][i])

\* C1: ecef_to_sez(P, P) ends by returning (0, 0, 0) for every finite
\* position P, the Z axis and the origin included.
C1_ZeroDelta ==
    \A t \in Threads :
        (SamePosition(t) /\ pc[t] \in {"returned", "raised"})
            => ret[t] = Returned(<<F(0), F(0), F(0)>>)

\* C2: a run with six numeric arguments that reaches its end has printed
\* exactly three lines, labelled s, e and z in that order, each with the
\* matching component of the result and the km suffix.
C2_PrintedLabels ==
    spc = "done" =>
        stdout = << <<"s: ", str(ret["main"].val[1]), " km">>,
                    <<"e: ", str(ret["main"].val[2]), " km">>,
                    <<"z: ", str(ret["main"].val[3]), " km">> >>

\* C3: a call given a position on the Z axis (r_lon_km = 0) never ends in a
\* ZeroDivisionError.
C3_DegeneratePolicy ==
    \A t \in Threads : OnZAxis(t) => ret[t].exc # "ZeroDivisionError"

\* C4: with any number of arguments other than six the script prints the
\* usage line and exits: nothing is parsed, ecef_to_sez is not called and
\* nothing else is printed.
C4_WrongCountUsage ==
    Len(sys_argv) # 7 =>
        /\ spc \in {"start", "exited"}
        /\ parsed = <<>>
        /\ fn["main"] = "none"
        /\ pc["main"] = "idle"
        /\ stdout = (IF spc = "exited" THEN <<UsageLine>> ELSE <<>>)

C4_Witness ==
    /\ Len(sys_argv) > 7
    /\ spc = "exited"
    /\ stdout = <<UsageLine>>

\* C5 as stated: for every position with r_lon_km > 0 and |z_km| < 10 R_E_KM
\* the loop body runs at most 10 times.
C5_Within10 ==
    \A t \in Threads : InDomain(t) => count[t] <= 10

\* C5 amended: for every position with r_lon_km > 0, |z_km| < 10 R_E_KM and
\* at least 1000 km from the Earth's centre the loop body runs at most 10
\* times, and the loop condition is false by then.
C5_Within10From1000km ==
    \A t \in Threads :
        From1000km(t) =>
            /\ count[t] <= 10
            /\ (pc[t] = "loop" /\ count[t] = 10) => ~loop_cond(t)

C5_Witness ==
    \E t \in Threads : From1000km(t) /\ LoopLeft(t) /\ count[t] >= 3

\* C6: for an observer at (x, 0, 0) with x > 0 the call does not raise, the
\* derived latitude and longitude are 0 and the result is (-dz, dy, dx); a
\* target 1 km along Z from the observer gives (-1, 0, 0).
C6_EquatorMeridian ==
    \A t \in Threads :
        OnEquatorMeridian(t) =>
            LET dx == fsub(args[t][4], args[t][1])
                dy == fsub(args[t][5], args[t][2])
                dz == fsub(args[t][6], args[t][3])
            IN  /\ pc[t] # "raised"
                /\ LoopLeft(t) => (lat_rad[t] = F(0) /\ lon_rad[t] = F(0))
                /\ pc[t] = "returned" => ret[t] = Returned(<<fneg(dz), dy, dx>>)
                /\ (pc[t] = "returned" /\ dx = F(0) /\ dy = F(0) /\ dz = F(LEN))
                       => ret[t] = Returned(<<F(-LEN), F(0), F(0)>>)

C6_Witness ==
    \E t \in Threads :
        /\ OnEquatorMeridian(t)
        /\ pc[t] = "returned"
        /\ args[t][6] = F(LEN)
        /\ ret[t] = Returned(<<F(-LEN), F(0), F(0)>>)

\* C7: whatever calls the threads have made and however they interleaved,
\* R_E_KM and E_E hold their initial values and calls of the same function
\* with equal arguments had equal outcomes (the script's own call included).
C7_Stateless ==
    /\ R_E_KM = F(R_E_KM_0)
    /\ E_E = F(E_E_0)
    /\ \A g \in hist, h \in hist :
           (g.fn = h.fn /\ g.args = h.args) => g.ret = h.ret
    /\ \A h \in hist :
           (h.fn = fn["main"] /\ h.args = args["main"]) => h.ret = ret["main"]

C7_Witness ==
    \E g \in hist, h \in hist :
        /\ g.by # h.by
        /\ g.fn = "ecef_to_sez"
        /\ h.fn = "ecef_to_sez"
        /\ g.args = h.args
        /\ g.args # args["main"]
        /\ g.ret.exc = "none"

\* C8: whenever the loop is left (or about to be left) its body has run at
\* least once and the last two latitude iterates are numbers no more than
\* 1e-7 apart.
C8_ExitConverged ==
    \A t \in Threads :
        (LoopLeft(t) \/ (pc[t] = "loop" /\ ~loop_cond(t))) =>
            /\ count[t] >= 1
            /\ IsFin(lat_rad[t])
            /\ IsFin(prev_lat_rad[t])
            /\ Abs(lat_rad[t].v - prev_lat_rad[t].v) <= A \div 10^7

C8_Witness ==
    \E t \in Threads :
        /\ LoopLeft(t)
        /\ count[t] >= 2
        /\ lat_rad[t] # prev_lat_rad[t]

\* C9: once the loop is left, c_E is the value R_E_KM / calc_denom(E_E, .)
\* of the latitude held at the start of the last iteration, it is not NaN,
\* and the height is r_lon_km / cos(lat_rad) - c_E with that c_E; a call of
\* ecef_to_llh returns that height with the final latitude.
C9_HeightFromLastCE ==
    \A t \in Threads :
        LoopLeft(t) =>
            LET last == fdiv(R_E_KM, calc_denom(E_E, prev_lat_rad[t]))
            IN  /\ ~isnan(c_E[t])
                /\ c_E[t] = last
                /\ hae_km[t] = fsub(fdiv(r_lon_km[t], math_cos(lat_rad[t])), last)
                /\ (fn[t] = "ecef_to_llh" /\ pc[t] = "returned")
                       => ret[t] = Returned(<<lat_rad[t], lon_rad[t], hae_km[t]>>)

C9_Witness ==
    \E t \in Threads :
        /\ LoopLeft(t)
        /\ count[t] >= 2
        /\ fdiv(R_E_KM, calc_denom(E_E, lat_rad[t])) # c_E[t]

\* C10: once the loop body has run, prev_lat_rad is never NaN.
C10_SentinelOnly ==
    \A t \in Threads : count[t] >= 1 => ~isnan(prev_lat_rad[t])

====
